---- MODULE Spec2Model ----
(***************************************************************************)
(* noti: dispatch of a message to the configured destinations, once        *)
(* (execute with a message argument) or per line of standard input         *)
(* (stream_and_dispatch).  The model follows src/src/commands.rs,          *)
(* src/src/config.rs and src/src/error.rs.  Spec and FairSpec are runs of  *)
(* execute; HookSpec is one call of dispatch_webhook step by step;         *)
(* FormatSpec applies as_content_type and format_message (of config.rs    *)
(* and of the earlier src/src/models.rs) to the formats and messages.     *)
(*                                                                         *)
(* Strings are sequences of one-character strings.  Option<T> is a         *)
(* sequence of length 0 (None) or 1 (Some).                                *)
(***************************************************************************)
EXTENDS Integers, Sequences, FiniteSets, TLC

\* ------------------------------------------------------------------ bounds

\* Longest destination sequence of a configuration.
MaxDest == 2
\* Longest input (number of lines on standard input), the fixed scenario apart.
MaxLines == 2
\* Longest message of a format or webhook call, the placeholder text apart.
MaxMsgLen == 2
\* Most pieces a Custom template is made of.
MaxTokens == 2
\* Most entries of a Custom format's header map.
MaxHeaders == 2

\* ------------------------------------------------------------- input data

LineInfo == <<"i", "n", "f", "o">>
LineError == <<"E", "R", "R", "O", "R", ":", " ", "d", "i", "s", "k", " ", "f", "u", "l", "l">>
LineOk == <<"o", "k">>

Lines == {LineInfo, LineError, LineOk}

\* The scenario of the spec's testable property: ["info", "ERROR: disk full", "ok"].
ScenarioInput == <<LineInfo, LineError, LineOk>>

PatError == <<"^", "E", "R", "R", "O", "R", ":">>
PatO == <<"o">>
PatGroup == <<"d", "(", ".", "*", ")", "l">>
PatDot == <<".", "l">>
PatInvalid == <<"(">>

Patterns == {PatError, PatO, PatGroup, PatDot, PatInvalid}

MessageArg == <<"h", "i">>

None == <<>>
Some(x) == <<x>>

RECURSIVE SeqsUpTo(_, _)
SeqsUpTo(S, n) ==
    IF n = 0 THEN {<<>>}
    ELSE LET shorter == SeqsUpTo(S, n - 1)
         IN  shorter \cup {Append(s, x) : s \in {t \in shorter : Len(t) = n - 1}, x \in S}

\* ------------------------------------------------------------------ regex
\* Regex::new and Regex::captures of the regex crate, for the syntax the
\* patterns above use: an optional leading ^, literal characters, the dot,
\* a star after a single character, and capture groups.

NoAtoms == <<>>

RECURSIVE ParseAtoms(_, _, _, _)
ParseAtoms(b, i, depth, acc) ==
    IF i > Len(b) THEN [ok |-> depth = 0, atoms |-> acc]
    ELSE IF b[i] = "(" THEN ParseAtoms(b, i + 1, depth + 1, acc)
    ELSE IF b[i] = ")" THEN
        IF depth = 0 THEN [ok |-> FALSE, atoms |-> NoAtoms]
        ELSE ParseAtoms(b, i + 1, depth - 1, acc)
    ELSE IF b[i] = "*" THEN
        IF i = 1 \/ b[i - 1] = "(" THEN [ok |-> FALSE, atoms |-> NoAtoms]
        ELSE ParseAtoms(b, i + 1, depth,
                 [acc EXCEPT ![Len(acc)] = [@ EXCEPT !.star = TRUE]])
    ELSE ParseAtoms(b, i + 1, depth,
             Append(acc, [c |-> b[i], star |-> FALSE, grp |-> depth > 0]))

\* Regex::new(pattern): the compiled program, or ok = FALSE (regex::Error).
RegexNew(pattern) ==
    LET anchored == Len(pattern) >= 1 /\ pattern[1] = "^"
        body == IF anchored THEN Tail(pattern) ELSE pattern
        parsed == ParseAtoms(body, 1, 0, NoAtoms)
    IN  [ok |-> parsed.ok, anchored |-> anchored, atoms |-> parsed.atoms]

CharMatches(c, x) == c = "." \/ c = x

NoMatch == <<>>

\* How many characters from pos on the atom's character matches (at most).
RECURSIVE Run(_, _, _)
Run(c, s, pos) ==
    IF pos <= Len(s) /\ CharMatches(c, s[pos]) THEN 1 + Run(c, s, pos + 1) ELSE 0

\* Backtracking match of atoms[k..] at pos: the positions at which each atom
\* starts followed by the position after the match, or NoMatch.  A star is
\* greedy: the longest run is tried first.
RECURSIVE MatchHere(_, _, _, _)
RECURSIVE TryStar(_, _, _, _, _)
TryStar(atoms, k, s, pos, n) ==
    LET r == MatchHere(atoms, k + 1, s, pos + n)
    IN  IF r # NoMatch THEN <<pos>> \o r
        ELSE IF n = 0 THEN NoMatch
        ELSE TryStar(atoms, k, s, pos, n - 1)

MatchHere(atoms, k, s, pos) ==
    IF k > Len(atoms) THEN <<pos>>
    ELSE IF atoms[k].star THEN TryStar(atoms, k, s, pos, Run(atoms[k].c, s, pos))
    ELSE IF pos <= Len(s) /\ CharMatches(atoms[k].c, s[pos]) THEN
        LET r == MatchHere(atoms, k + 1, s, pos + 1)
        IN  IF r = NoMatch THEN NoMatch ELSE <<pos>> \o r
    ELSE NoMatch

\* The leftmost start at which the program matches.
RECURSIVE MatchFrom(_, _, _)
MatchFrom(re, s, start) ==
    IF start > Len(s) + 1 THEN NoMatch
    ELSE LET r == MatchHere(re.atoms, 1, s, start)
         IN  IF r # NoMatch THEN r
             ELSE IF re.anchored THEN NoMatch
             ELSE MatchFrom(re, s, start + 1)

\* re.captures(&value): None, or Some of the first match's positions.
Captures(re, value) ==
    LET r == MatchFrom(re, value, 1)
    IN  IF r = NoMatch THEN None ELSE Some(r)

\* Faulty variant of CaptureWhole: captures.get(1), the text of the first capture
\* group (empty when the pattern has none), instead of captures.get(0).
CaptureGroup(re, value, caps) ==
    LET g == {k \in 1..Len(re.atoms) : re.atoms[k].grp}
    IN  IF g = {} THEN <<>>
        ELSE LET lo == CHOOSE k \in g : \A j \in g : k <= j
                 hi == CHOOSE k \in g : \A j \in g : k >= j
             IN  SubSeq(value, caps[lo], caps[hi + 1] - 1)

\* captures.get(0).as_str(): the text of the whole match.
CaptureWhole(re, value, caps) ==
    SubSeq(value, caps[1], caps[Len(caps)] - 1)

\* ---------------------------------------------------------- configuration

\* Destination (config.rs): a desktop notification or a webhook; for a webhook
\* the format is Standard or Custom, and a Custom format's headers convert to
\* a HeaderMap ("ok") or hold an invalid name ("badname") or value ("badvalue").
Desktop == [type |-> "desktop", custom |-> FALSE, headers |-> "ok"]
WebhookStandard == [type |-> "webhook", custom |-> FALSE, headers |-> "ok"]
WebhookBadHeader == [type |-> "webhook", custom |-> TRUE, headers |-> "badname"]

Destinations == {Desktop, WebhookStandard, WebhookBadHeader}

Redirects == {"None", "Stdout", "Stderr"}

Configs ==
    [destination : SeqsUpTo(Destinations, MaxDest),
     enabled : BOOLEAN,
     matching : {None} \cup {Some(p) : p \in Patterns},
     redirect : Redirects]

Inputs == SeqsUpTo(Lines, MaxLines) \cup {ScenarioInput}

\* ----------------------------------------------------------------- errors

Running == [tag |-> "Running", kind |-> "", src |-> 0]
Ok == [tag |-> "Ok", kind |-> "", src |-> 0]
\* Err(kind, src): the Error variant and, for an error of a destination task,
\* the index of the destination it came from (0 otherwise).
Err(kind, src) == [tag |-> "Err", kind |-> kind, src |-> src]

\* try_join_all's FinalState: Pending, AllDone or Error(e).
\* Faulty variant of AllDone: a poll starts from Pending, so a join over no
\* futures never sees all of them done.
AllDoneStartsPending == [tag |-> "Pending", kind |-> "", src |-> 0]
AllDone == [tag |-> "AllDone", kind |-> "", src |-> 0]
Pending == [tag |-> "Pending", kind |-> "", src |-> 0]
Error(kind, src) == [tag |-> "Error", kind |-> kind, src |-> src]

\* as_header_map: the first invalid name or value is the error.
AsHeaderMap(headers) ==
    IF headers = "badname" THEN "UnknownHttpHeader"
    ELSE IF headers = "badvalue" THEN "InvalidHttpHeader"
    ELSE ""

\* ------------------------------------------------------------------ state

VARIABLES
    cfg,        \* the configuration document at args.config
    message,    \* args.message: Option<String>
    input,      \* the lines standard input holds when the program starts
    stdin,      \* the lines of standard input not yet read
    loaded,     \* execute: whether Config::try_from returned the configuration
    pc,         \* where execute is: start, read, echo, match, poll, done
    value,      \* stream_and_dispatch: the line being processed
    nread,      \* the number of lines read so far
    joinMsg,    \* dispatch_all: the message of the fan-out in progress
    tasks,      \* try_join_all: the state of each destination's future
    cursor,     \* try_join_all: the element the current poll is at
    fstate,     \* try_join_all: the FinalState of the current poll
    joinRes,    \* what the last dispatch_all returned (Running: not yet)
    result,     \* what execute returned
    stdout,     \* lines printed to standard output
    stderr,     \* lines printed to standard error
    log,        \* history: reads, echoes, fan-outs, delivery attempts
    call,       \* dispatch_webhook, format_message: the arguments of the call
    wpc,        \* where the call is: idle, format, client, request, send, response, done
    request,    \* the request built: method, headers' content type, body
    sent,       \* whether the request went out to the network
    status,     \* the status of the response received, if one was
    ret,        \* what the call returned
    cause,      \* the reqwest::Error of an Http error: as raised, and as Error::Http holds it
    initArgs,   \* init: the destination type and the custom flag
    file,       \* what the file system holds at init's path (None: no file)
    file0,      \* history: what it held when init was called
    ipc,        \* where init is: idle, exists, write, done
    exists,     \* what try_exists returned
    data,       \* the serialised default configuration
    iret        \* what init returned

\* The state of one call of dispatch_webhook or of the format functions.
hookvars == <<call, wpc, request, sent, status, ret, cause>>

\* The state of one call of init.
initvars == <<initArgs, file, file0, ipc, exists, data, iret>>

vars == <<cfg, message, input, stdin, loaded, pc, value, nread, joinMsg, tasks,
          cursor, fstate, joinRes, result, stdout, stderr, log,
          call, wpc, request, sent, status, ret, cause,
          initArgs, file, file0, ipc, exists, data, iret>>

\* No call of dispatch_webhook is followed step by step.
HookIdle ==
    /\ call = None
    /\ wpc = "idle"
    /\ request = None
    /\ sent = FALSE
    /\ status = None
    /\ ret = Running
    /\ cause = None

\* No call of init is followed.
InitIdle ==
    /\ initArgs = None
    /\ file = None
    /\ file0 = None
    /\ ipc = "idle"
    /\ exists = None
    /\ data = None
    /\ iret = Running

Event(ev, n, msg) == [ev |-> ev, n |-> n, msg |-> msg]

Init ==
    /\ cfg \in Configs
    /\ message \in {None, Some(MessageArg)}
    /\ input \in Inputs
    /\ stdin = input
    /\ loaded = FALSE
    /\ pc = "start"
    /\ value = <<>>
    /\ nread = 0
    /\ joinMsg = <<>>
    /\ tasks = <<>>
    /\ cursor = 0
    /\ fstate = AllDone
    /\ joinRes = Running
    /\ result = Running
    /\ stdout = <<>>
    /\ stderr = <<>>
    /\ log = <<>>
    /\ HookIdle
    /\ InitIdle

\* ---------------------------------------------------------------- execute

\* Faulty variant of ExecuteMode: a message argument is dispatched whatever
\* stream.enabled says.
ExecuteModeMessageFirst(enabled, msg) ==
    IF msg # None THEN "dispatch"
    ELSE IF enabled THEN "stream"
    ELSE "NoMessage"

\* Faulty variant of ExecuteMode: with no message argument standard input is
\* streamed whatever stream.enabled says.
ExecuteModeStreamDefault(enabled, msg) ==
    IF msg = None THEN "stream"
    ELSE IF enabled THEN "StreamAndMessage"
    ELSE "dispatch"

\* Faulty variant of ExecuteMode: a message argument is never dispatched.
ExecuteModeNoDispatch(enabled, msg) ==
    IF enabled /\ msg = None THEN "stream"
    ELSE IF enabled THEN "StreamAndMessage"
    ELSE "NoMessage"

\* execute, the match on (config.stream.enabled, args.message).
ExecuteMode(enabled, msg) ==
    IF enabled /\ msg = None THEN "stream"
    ELSE IF enabled THEN "StreamAndMessage"
    ELSE IF msg = None THEN "NoMessage"
    ELSE "dispatch"

\* The number of fan-outs (dispatch_all calls) made so far.
NumFanouts == Cardinality({k \in 1..Len(log) : log[k].ev = "fanout"})

\* dispatch_all(msg, config): one future per destination, none polled yet,
\* handed to try_join_all.
DispatchAll(msg) ==
    /\ joinMsg' = msg
    /\ tasks' = [i \in 1..Len(cfg.destination) |->
                     [st |-> "created", err |-> "", first |-> FALSE]]
    /\ cursor' = 1
    /\ fstate' = AllDone
    /\ joinRes' = Running
    /\ log' = Append(log, Event("fanout", NumFanouts + 1, msg))
    /\ pc' = "poll"

\* Config::try_from(&args.config)? and the match of execute.
Execute ==
    /\ pc = "start"
    /\ \E load \in {"ok", "NoConfig", "InvalidConfig", "Io"} :
         /\ loaded' = (load = "ok")
         /\ IF load # "ok" THEN
                /\ result' = Err(load, 0)
                /\ pc' = "done"
                /\ UNCHANGED <<joinMsg, tasks, cursor, fstate, joinRes, log>>
            ELSE LET mode == ExecuteMode(cfg.enabled, message) IN
                IF mode = "stream" THEN
                    /\ pc' = "read"
                    /\ UNCHANGED <<result, joinMsg, tasks, cursor, fstate, joinRes, log>>
                ELSE IF mode = "dispatch" THEN
                    /\ DispatchAll(message[1])
                    /\ UNCHANGED result
                ELSE
                    /\ result' = Err(mode, 0)
                    /\ pc' = "done"
                    /\ UNCHANGED <<joinMsg, tasks, cursor, fstate, joinRes, log>>
    /\ UNCHANGED <<hookvars, initvars>>
    /\ UNCHANGED <<cfg, message, input, stdin, value, nread, stdout, stderr>>

\* ---------------------------------------------------- stream_and_dispatch

\* for line in io::stdin().lock().lines() { let value = line?; ...
ReadLine ==
    /\ pc = "read"
    /\ IF stdin = <<>> THEN
           /\ result' = Ok
           /\ pc' = "done"
           /\ UNCHANGED <<stdin, value, nread, log>>
       ELSE
           \/ /\ value' = Head(stdin)
              /\ stdin' = Tail(stdin)
              /\ nread' = nread + 1
              /\ log' = Append(log, Event("read", nread + 1, Head(stdin)))
              /\ pc' = "echo"
              /\ UNCHANGED result
           \/ /\ result' = Err("Io", 0)
              /\ stdin' = Tail(stdin)
              /\ pc' = "done"
              /\ UNCHANGED <<value, nread, log>>
    /\ UNCHANGED <<hookvars, initvars>>
    /\ UNCHANGED <<cfg, message, input, loaded, joinMsg, tasks, cursor, fstate,
                   joinRes, stdout, stderr>>

\* Faulty variant of EchoTarget: the two streams exchanged.
EchoTargetSwapped(redirect) ==
    IF redirect = "Stderr" THEN "stdout"
    ELSE IF redirect = "Stdout" THEN "stderr"
    ELSE "none"

\* match config.stream.redirect: where the line is echoed.
EchoTarget(redirect) ==
    IF redirect = "Stderr" THEN "stderr"
    ELSE IF redirect = "Stdout" THEN "stdout"
    ELSE "none"

Echo ==
    /\ pc = "echo"
    /\ LET to == EchoTarget(cfg.redirect) IN
         /\ stdout' = IF to = "stdout" THEN Append(stdout, value) ELSE stdout
         /\ stderr' = IF to = "stderr" THEN Append(stderr, value) ELSE stderr
         /\ log' = IF to = "none" THEN log ELSE Append(log, Event(to, nread, value))
    /\ pc' = "match"
    /\ UNCHANGED <<hookvars, initvars>>
    /\ UNCHANGED <<cfg, message, input, stdin, loaded, value, nread, joinMsg, tasks,
                   cursor, fstate, joinRes, result>>

\* Faulty variant of StreamSelect: the pattern only filters, a matching line is
\* dispatched whole.
StreamSelectWholeLine(matching, line) ==
    IF matching = None THEN [act |-> "dispatch", msg |-> line]
    ELSE LET re == RegexNew(matching[1]) IN
         IF ~re.ok THEN [act |-> "Regex", msg |-> <<>>]
         ELSE IF Captures(re, line) = None THEN [act |-> "continue", msg |-> <<>>]
         ELSE [act |-> "dispatch", msg |-> line]

\* Faulty variant of StreamSelect: a line is dispatched only when a pattern
\* is set and matches it.
StreamSelectMatchOnly(matching, line) ==
    IF matching = None THEN [act |-> "continue", msg |-> <<>>]
    ELSE LET re == RegexNew(matching[1]) IN
         IF ~re.ok THEN [act |-> "Regex", msg |-> <<>>]
         ELSE LET captures == Captures(re, line) IN
              IF captures = None THEN [act |-> "continue", msg |-> <<>>]
              ELSE [act |-> "dispatch", msg |-> CaptureWhole(re, line, captures[1])]

\* match &config.stream.matching: what is done with the line.
StreamSelect(matching, line) ==
    IF matching = None THEN [act |-> "dispatch", msg |-> line]
    ELSE LET re == RegexNew(matching[1]) IN
         IF ~re.ok THEN [act |-> "Regex", msg |-> <<>>]
         ELSE LET captures == Captures(re, line) IN
              IF captures = None THEN [act |-> "continue", msg |-> <<>>]
              ELSE [act |-> "dispatch", msg |-> CaptureWhole(re, line, captures[1])]

Match ==
    /\ pc = "match"
    /\ LET sel == StreamSelect(cfg.matching, value) IN
         IF sel.act = "Regex" THEN
             /\ result' = Err("Regex", 0)
             /\ pc' = "done"
             /\ UNCHANGED <<joinMsg, tasks, cursor, fstate, joinRes, log>>
         ELSE IF sel.act = "continue" THEN
             /\ pc' = "read"
             /\ UNCHANGED <<result, joinMsg, tasks, cursor, fstate, joinRes, log>>
         ELSE
             /\ DispatchAll(sel.msg)
             /\ UNCHANGED result
    /\ UNCHANGED <<hookvars, initvars>>
    /\ UNCHANGED <<cfg, message, input, stdin, loaded, value, nread, stdout, stderr>>

\* ------------------------------------------------- dispatch, dispatch_all

Outcome(st, err, attempt) == [st |-> st, err |-> err, attempt |-> attempt]

\* Faulty variant of Poll: a future that is polled again makes its delivery
\* attempt again.
PollRetry(dest, st) ==
    IF dest.type = "desktop" THEN
        {Outcome("ok", "", TRUE), Outcome("err", "NotifyRust", TRUE)}
    ELSE
        {Outcome("pending", "", TRUE), Outcome("ok", "", TRUE),
         Outcome("err", "Http", TRUE)}

\* One poll of the future dispatch(message, destination) in state st: what it
\* can become, and whether the poll made the delivery attempt (the HTTP
\* request was sent, the notification was shown).  dispatch_desktop does not
\* suspend.  dispatch_webhook fails before any request when the client cannot
\* be built or the custom headers do not convert, and suspends in send().
Poll(dest, st) ==
    IF st = "created" THEN
        IF dest.type = "desktop" THEN
            {Outcome("ok", "", TRUE), Outcome("err", "NotifyRust", TRUE)}
        ELSE IF dest.custom /\ AsHeaderMap(dest.headers) # "" THEN
            {Outcome("err", "Http", FALSE),
             Outcome("err", AsHeaderMap(dest.headers), FALSE)}
        ELSE
            {Outcome("err", "Http", FALSE), Outcome("pending", "", TRUE)}
    ELSE
        {Outcome("pending", "", FALSE), Outcome("ok", "", FALSE),
         Outcome("err", "Http", FALSE)}

\* Faulty variant of NextElem: no break, the loop goes on after an error.
NextElemNoBreak(n, i, st) == i + 1

\* try_join_all, the loop over the elements: an error ends the loop (break).
NextElem(n, i, st) == IF st = "err" THEN n + 1 ELSE i + 1

\* Faulty variant of DropElems: the elements are kept as they are.
DropElemsNone(ts) == ts

\* try_join_all, FinalState::Error: the elements are dropped.  A future that
\* was never polled never starts; a suspended one is cancelled.
DropElems(ts) ==
    [i \in 1..Len(ts) |->
        IF ts[i].st = "created" THEN [ts[i] EXCEPT !.st = "unpolled"]
        ELSE IF ts[i].st = "pending" THEN [ts[i] EXCEPT !.st = "dropped"]
        ELSE ts[i]]

\* Faulty variant of GoesOn: the streaming loop ends after its first fan-out.
GoesOnNever(mode, r) == FALSE

\* Faulty variant of GoesOn: the streaming loop swallows a failed fan-out.
GoesOnSwallow(mode, r) == mode = "stream"

\* Whether the caller of dispatch_all goes on after it returned r:
\* `dispatch_all(..).await?` in the loop of stream_and_dispatch goes on to
\* the next line on Ok; execute returns what dispatch_all returned.
GoesOn(mode, r) == mode = "stream" /\ r.tag = "Ok"

\* Faulty variant of ElemsExhausted: the join does not wait for its elements.
ElemsExhaustedAlways(c, n) == TRUE

\* try_join_all, the loop over the elements has ended.
ElemsExhausted(c, n) == c > n

\* try_join_all(tasks).await: the poll of one element.  The elements are
\* polled in the order of the destinations (the path try_join_all takes for
\* up to 30 futures).
JoinPollElem ==
    /\ pc = "poll"
    /\ cursor <= Len(tasks)
    /\ IF tasks[cursor].st \in {"ok", "err"} THEN
           /\ cursor' = cursor + 1
           /\ UNCHANGED <<tasks, fstate, log>>
       ELSE \E out \in Poll(cfg.destination[cursor], tasks[cursor].st) :
           /\ tasks' = [tasks EXCEPT ![cursor] =
                            [st |-> out.st, err |-> out.err,
                             first |-> tasks[cursor].st = "created" /\ out.st # "pending"]]
           /\ fstate' = IF out.st = "pending" THEN Pending
                        ELSE IF out.st = "err" THEN Error(out.err, cursor)
                        ELSE fstate
           /\ cursor' = NextElem(Len(tasks), cursor, out.st)
           /\ log' = LET l1 == IF out.attempt
                               THEN Append(log, Event("attempt", cursor, joinMsg))
                               ELSE log
                     IN  IF out.st = "err"
                         THEN Append(l1, Event("fail", cursor, <<out.err>>))
                         ELSE l1
    /\ UNCHANGED <<hookvars, initvars>>
    /\ UNCHANGED <<cfg, message, input, stdin, loaded, pc, value, nread, joinMsg,
                   joinRes, result, stdout, stderr>>

\* try_join_all(tasks).await: the end of a poll.  Pending: polled again when
\* woken.  AllDone: Ok.  Error: the elements are dropped and the error is
\* returned; `?` returns it from dispatch_all.
JoinPollEnd ==
    /\ pc = "poll"
    /\ ElemsExhausted(cursor, Len(tasks))
    /\ IF fstate.tag = "Pending" THEN
           /\ cursor' = 1
           /\ fstate' = AllDone
           /\ UNCHANGED <<tasks, pc, joinRes, result, log>>
       ELSE LET r == IF fstate.tag = "Error" THEN Err(fstate.kind, fstate.src) ELSE Ok IN
           /\ tasks' = IF fstate.tag = "Error" THEN DropElems(tasks) ELSE tasks
           /\ joinRes' = r
           /\ log' = Append(log, Event("resolved", NumFanouts, <<r.tag, r.kind>>))
           /\ IF GoesOn(ExecuteMode(cfg.enabled, message), r) THEN
                  /\ pc' = "read"
                  /\ UNCHANGED result
              ELSE
                  /\ result' = r
                  /\ pc' = "done"
           /\ UNCHANGED <<cursor, fstate>>
    /\ UNCHANGED <<hookvars, initvars>>
    /\ UNCHANGED <<cfg, message, input, stdin, loaded, value, nread, joinMsg,
                   stdout, stderr>>

Next ==
    \/ Execute
    \/ ReadLine
    \/ Echo
    \/ Match
    \/ JoinPollElem
    \/ JoinPollEnd

Spec == Init /\ [][Next]_vars

\* A destination's future comes to its end: the notification is shown or
\* fails, the request gets its response or fails.
Completes ==
    /\ JoinPollElem
    /\ tasks[cursor].st \notin {"ok", "err"}
    /\ tasks'[cursor].st \in {"ok", "err"}

\* The runs termination is checked over: those whose input lines are short
\* (how long a line is plays no part in whether the stream ends).
FairInit == Init /\ \A i \in 1..Len(input) : input[i] \in {LineInfo, LineOk}

\* execute is the one task of the runtime: it is run whenever it can take a
\* step, and a future that is polled again and again is at some poll ready.
FairSpec == FairInit /\ [][Next]_vars /\ WF_vars(Next) /\ SF_vars(Completes)

\* ----------------------------------------------------------- format engine
\* WebhookFormat::as_content_type and WebhookFormat::format_message of
\* src/src/config.rs; src/src/models.rs holds the two functions of the
\* Standard formats as an earlier revision of the program had them.

Quote == "\""
Backslash == "\\"
Newline == "\n"
Apostrophe == "'"

\* The literal the template's substitution looks for: "$(message)".
Placeholder == <<"$", "(", "m", "e", "s", "s", "a", "g", "e", ")">>

MsgChars == {"a", Quote, Backslash, Newline, Apostrophe}

\* The messages a call is made with.
Messages == SeqsUpTo(MsgChars, MaxMsgLen) \cup {Placeholder}

RECURSIVE Flatten(_)
Flatten(ss) == IF ss = <<>> THEN <<>> ELSE Head(ss) \o Flatten(Tail(ss))

\* The pieces templates are made of: the placeholder, a beginning of it,
\* plain text, a quote.
Tokens == {Placeholder, <<"$", "(">>, <<"a">>, <<Quote>>}

Templates == {Flatten(ts) : ts \in SeqsUpTo(Tokens, MaxTokens)}

\* Whether p occurs in s at position i.
StartsAt(p, s, i) == i + Len(p) - 1 <= Len(s) /\ SubSeq(s, i, i + Len(p) - 1) = p

\* Faulty variant of Replace: str::replacen(from, to, 1), only the first
\* occurrence is replaced.
RECURSIVE ReplaceFirst(_, _, _, _)
ReplaceFirst(s, from, to, i) ==
    IF i > Len(s) THEN <<>>
    ELSE IF StartsAt(from, s, i) THEN to \o SubSeq(s, i + Len(from), Len(s))
    ELSE <<s[i]>> \o ReplaceFirst(s, from, to, i + 1)

\* str::replace(from, to) from position i on: the matches of from are taken
\* left to right, not overlapping, and each is replaced by to; the text put
\* in is not searched.
RECURSIVE Replace(_, _, _, _)
Replace(s, from, to, i) ==
    IF i > Len(s) THEN <<>>
    ELSE IF StartsAt(from, s, i) THEN to \o Replace(s, from, to, i + Len(from))
    ELSE <<s[i]>> \o Replace(s, from, to, i + 1)

\* char::escape_default, for the characters of MsgChars (and tab, carriage
\* return): a backslash escape for \t \r \n ' " \, printable ASCII as it is.
EscapeDefaultChar(c) ==
    IF c = Newline THEN <<Backslash, "n">>
    ELSE IF c = "\t" THEN <<Backslash, "t">>
    ELSE IF c = "\r" THEN <<Backslash, "r">>
    ELSE IF c \in {Quote, Backslash, Apostrophe} THEN <<Backslash, c>>
    ELSE <<c>>

\* str::escape_default().collect::<String>()
RECURSIVE EscapeDefault(_)
EscapeDefault(s) ==
    IF s = <<>> THEN <<>> ELSE EscapeDefaultChar(Head(s)) \o EscapeDefault(Tail(s))

\* serde_json's string escapes, for the same characters: " \ and the
\* control characters are escaped, the apostrophe is not.
JsonEscapeChar(c) ==
    IF c = Newline THEN <<Backslash, "n">>
    ELSE IF c = "\t" THEN <<Backslash, "t">>
    ELSE IF c = "\r" THEN <<Backslash, "r">>
    ELSE IF c \in {Quote, Backslash} THEN <<Backslash, c>>
    ELSE <<c>>

RECURSIVE JsonEscape(_)
JsonEscape(s) ==
    IF s = <<>> THEN <<>> ELSE JsonEscapeChar(Head(s)) \o JsonEscape(Tail(s))

JsonString(s) == <<Quote>> \o JsonEscape(s) \o <<Quote>>

\* serde_json::to_string(&json!({key: value})): the compact object.
ToStringObject(key, val) ==
    <<"{">> \o JsonString(key) \o <<":">> \o JsonString(val) \o <<"}">>

TextPlain == <<"t", "e", "x", "t", "/", "p", "l", "a", "i", "n">>
TextHtml == <<"t", "e", "x", "t", "/", "h", "t", "m", "l">>
ApplicationJson ==
    <<"a", "p", "p", "l", "i", "c", "a", "t", "i", "o", "n", "/", "j", "s", "o", "n">>
ContentTypeName == <<"C", "o", "n", "t", "e", "n", "t", "-", "T", "y", "p", "e">>

\* Header entries of a Custom format (IndexMap<String, String>: the names of
\* a map are distinct).
HeaderGood == [name |-> <<"x", "-", "a">>, value |-> <<"a", " ", "b">>]
HeaderBadName == [name |-> <<"b", " ", "c">>, value |-> <<"a">>]
HeaderBadValue == [name |-> <<"x", "-", "v">>, value |-> <<"a", Newline>>]
HeaderBadBoth == [name |-> <<"(">>, value |-> <<Newline>>]
HeaderContentType == [name |-> ContentTypeName, value |-> ApplicationJson]

HeaderEntries == {HeaderGood, HeaderBadName, HeaderBadValue, HeaderBadBoth, HeaderContentType}

HeaderMaps ==
    {h \in SeqsUpTo(HeaderEntries, MaxHeaders) :
        \A i, j \in 1..Len(h) : i # j => h[i].name # h[j].name}

HttpMethods == {"POST", "PATCH", "PUT"}

StandardKinds == {"PlainText", "Discord", "GoogleChat"}

\* WebhookFormat::Standard(kind).  The fields of a Custom format are there
\* with the values a Standard format's request has.
Standard(kind) ==
    [variant |-> "Standard", kind |-> kind, method |-> "POST", headers |-> <<>>,
     template |-> <<>>, escape |-> FALSE]

\* WebhookFormat::Custom(CustomWebhookFormat {http: {headers, method}, template, escape}).
Custom(method, headers, template, escape) ==
    [variant |-> "Custom", kind |-> "Custom", method |-> method, headers |-> headers,
     template |-> template, escape |-> escape]

StandardFormats == {Standard(k) : k \in StandardKinds}

\* The Custom formats of the model: every template and escape setting with
\* no headers, and every header map and method with one template.
CustomFormats ==
    {Custom("POST", <<>>, t, e) : t \in Templates, e \in BOOLEAN}
    \cup {Custom(m, h, Placeholder, FALSE) : m \in HttpMethods, h \in HeaderMaps}

\* IndexMap::get(name)
RECURSIVE HeaderGet(_, _)
HeaderGet(headers, name) ==
    IF headers = <<>> THEN None
    ELSE IF Head(headers).name = name THEN Some(Head(headers).value)
    ELSE HeaderGet(Tail(headers), name)

\* as_content_type, of config.rs or of models.rs (Standard formats only).
AsContentType(rev, format) ==
    IF format.variant = "Standard" THEN
        IF format.kind = "PlainText"
        THEN (IF rev = "models.rs" THEN TextHtml ELSE TextPlain)
        ELSE ApplicationJson
    ELSE LET v == HeaderGet(format.headers, ContentTypeName)
         IN  IF v = None THEN TextPlain ELSE v[1]

\* format_message (the same in config.rs and models.rs for the Standard
\* formats).
FormatMessage(format, msg) ==
    IF format.kind = "PlainText" THEN msg
    ELSE IF format.kind = "Discord" THEN
        ToStringObject(<<"c", "o", "n", "t", "e", "n", "t">>, msg)
    ELSE IF format.kind = "GoogleChat" THEN
        ToStringObject(<<"t", "e", "x", "t">>, msg)
    ELSE LET m == IF format.escape THEN EscapeDefault(msg) ELSE msg
         IN  Replace(format.template, Placeholder, m, 1)

\* ------------------------------------------------------- dispatch_webhook

\* HeaderName::from_bytes: a non-empty token; of the characters the header
\* entries use, the space, the parenthesis and control characters are not
\* token characters.
NameOk(name) ==
    /\ name # <<>>
    /\ \A i \in 1..Len(name) : name[i] \notin {" ", "(", ")", Quote, Newline, "\t", "\r"}

\* HeaderValue::from_bytes: no control character but the tab.
ValueOk(v) == \A i \in 1..Len(v) : v[i] \notin {Newline, "\r"}

\* Faulty variant of ClassifyHeaders: header values are not checked.
RECURSIVE ClassifyNamesOnly(_)
ClassifyNamesOnly(headers) ==
    IF headers = <<>> THEN "ok"
    ELSE IF ~NameOk(Head(headers).name) THEN "badname"
    ELSE ClassifyNamesOnly(Tail(headers))

\* as_header_map, the iteration: the entries are converted in order, the
\* name before the value, and the first failure ends the conversion.
RECURSIVE ClassifyHeaders(_)
ClassifyHeaders(headers) ==
    IF headers = <<>> THEN "ok"
    ELSE IF ~NameOk(Head(headers).name) THEN "badname"
    ELSE IF ~ValueOk(Head(headers).value) THEN "badvalue"
    ELSE ClassifyHeaders(Tail(headers))

\* The statuses a response comes with (redirects that reqwest follows are
\* over: the status is that of the final response).
Statuses == {200, 204, 304, 404, 500}

\* Faulty variant of ErrorForStatus: only server errors are errors.
ErrorForStatusServerOnly(code) == code >= 500 /\ code <= 599

\* Response::error_for_status: Err when the status is a client error (4xx)
\* or a server error (5xx).
ErrorForStatus(code) == (code >= 400 /\ code <= 499) \/ (code >= 500 /\ code <= 599)

\* The urls of the calls: one endpoint with two secret tokens.
UrlA == "https://hooks.example/T0KEN-A"
UrlB == "https://hooks.example/T0KEN-B"
Urls == {UrlA, UrlB}

\* A reqwest::Error as the library raises it: its kind (builder, request,
\* status), the url of the request if it got one, the status code if it is
\* a status error.
ReqwestError(kind, url, code) == [kind |-> kind, url |-> url, code |-> code]

\* Faulty variant of WithoutUrl: the url stays in the error.
WithoutUrlKept(e) == e

\* reqwest::Error::without_url
WithoutUrl(e) == [e EXCEPT !.url = None]

\* From<reqwest::Error> for Error: what Error::Http holds.
FromReqwest(error) == WithoutUrl(error)

\* The error of a failed `?` on a reqwest result: as raised, and as held.
HttpCause(error) == Some([raised |-> error, inner |-> FromReqwest(error)])

\* Display for reqwest::Error: the kind, the status code of a status error,
\* then the url if the error has one.
ReqwestDisplay(e) ==
    (IF e.kind = "builder" THEN <<"builder error">>
     ELSE IF e.kind = "request" THEN <<"error sending request">>
     ELSE <<(IF e.code[1] <= 499 THEN "HTTP status client error"
             ELSE "HTTP status server error"),
            " (", ToString(e.code[1]), ")">>)
    \o (IF e.url = None THEN <<>> ELSE <<" for url (", e.url[1], ")">>)

\* Display for Error, the variants a webhook dispatch returns: the pieces of
\* the message, in order.
Display(kind, e) ==
    IF kind = "Http" THEN
        <<"An error occurred when sending a request: ">> \o ReqwestDisplay(e)
    ELSE IF kind = "UnknownHttpHeader" THEN <<"invalid HTTP header name">>
    ELSE <<"failed to parse header value">>

\* The calls of the format functions: of config.rs with every format, of
\* models.rs with the Standard formats.
FormatCalls ==
    [rev : {"config.rs"}, format : StandardFormats \cup CustomFormats, message : Messages]
    \cup [rev : {"models.rs"}, format : StandardFormats, message : Messages]

\* The calls of dispatch_webhook (commands.rs uses config::WebhookFormat).
HookCalls ==
    [rev : {"config.rs"}, format : StandardFormats \cup CustomFormats, message : Messages,
     url : Urls]

\* No run of execute is followed.
ExecuteIdle ==
    /\ cfg = [destination |-> <<>>, enabled |-> FALSE, matching |-> None, redirect |-> "None"]
    /\ message = None
    /\ input = <<>>
    /\ stdin = <<>>
    /\ loaded = FALSE
    /\ pc = "idle"
    /\ value = <<>>
    /\ nread = 0
    /\ joinMsg = <<>>
    /\ tasks = <<>>
    /\ cursor = 0
    /\ fstate = AllDone
    /\ joinRes = Running
    /\ result = Running
    /\ stdout = <<>>
    /\ stderr = <<>>
    /\ log = <<>>

execvars == <<cfg, message, input, stdin, loaded, pc, value, nread, joinMsg, tasks,
              cursor, fstate, joinRes, result, stdout, stderr, log>>

Request(method, headers, body) == [method |-> method, headers |-> headers, body |-> body]

FormatInit ==
    /\ ExecuteIdle
    /\ call \in FormatCalls
    /\ wpc = "format"
    /\ request = None
    /\ sent = FALSE
    /\ status = None
    /\ ret = Running
    /\ cause = None
    /\ InitIdle

\* as_content_type and format_message applied to the call's format and
\* message: the Content-Type header and the body they give.
Format ==
    /\ wpc = "format"
    /\ request' = Some(Request(call.format.method,
                               << [name |-> ContentTypeName,
                                   value |-> AsContentType(call.rev, call.format)] >>,
                               FormatMessage(call.format, call.message)))
    /\ wpc' = "done"
    /\ UNCHANGED <<call, sent, status, ret, cause>>
    /\ UNCHANGED <<execvars, initvars>>

FormatSpec == FormatInit /\ [][Format]_vars

HookInit ==
    /\ ExecuteIdle
    /\ call \in HookCalls
    /\ wpc = "client"
    /\ request = None
    /\ sent = FALSE
    /\ status = None
    /\ ret = Running
    /\ cause = None
    /\ InitIdle

\* let client = reqwest::Client::builder().build()?;
BuildClient ==
    /\ wpc = "client"
    /\ \/ /\ wpc' = "request"
          /\ UNCHANGED <<ret, cause>>
       \/ /\ ret' = Err("Http", 0)
          /\ cause' = HttpCause(ReqwestError("builder", None, None))
          /\ wpc' = "done"
    /\ UNCHANGED <<call, request, sent, status>>
    /\ UNCHANGED <<execvars, initvars>>

\* let resp = match format { Custom(fmt) => ..., _ => ... };
BuildRequest ==
    /\ wpc = "request"
    /\ IF call.format.variant = "Custom" THEN
           LET e == AsHeaderMap(ClassifyHeaders(call.format.headers)) IN
           IF e # "" THEN
               /\ ret' = Err(e, 0)
               /\ UNCHANGED cause
               /\ wpc' = "done"
               /\ UNCHANGED request
           ELSE
               /\ request' = Some(Request(call.format.method, call.format.headers,
                                          FormatMessage(call.format, call.message)))
               /\ wpc' = "send"
               /\ UNCHANGED <<ret, cause>>
       ELSE
           /\ request' = Some(Request("POST",
                                      << [name |-> ContentTypeName,
                                          value |-> AsContentType(call.rev, call.format)] >>,
                                      FormatMessage(call.format, call.message)))
           /\ wpc' = "send"
           /\ UNCHANGED <<ret, cause>>
    /\ UNCHANGED <<call, sent, status>>
    /\ UNCHANGED <<execvars, initvars>>

\* resp.send().await?: the request cannot be built from the url (nothing is
\* sent), or it is sent and fails in transport, or it is sent and a response
\* comes with its status.
Send ==
    /\ wpc = "send"
    /\ \/ /\ ret' = Err("Http", 0)
          /\ cause' = HttpCause(ReqwestError("builder", None, None))
          /\ wpc' = "done"
          /\ UNCHANGED <<sent, status>>
       \/ /\ sent' = TRUE
          /\ ret' = Err("Http", 0)
          /\ cause' = HttpCause(ReqwestError("request", Some(call.url), None))
          /\ wpc' = "done"
          /\ UNCHANGED status
       \/ \E code \in Statuses :
            /\ sent' = TRUE
            /\ status' = Some(code)
            /\ wpc' = "response"
            /\ UNCHANGED <<ret, cause>>
    /\ UNCHANGED <<call, request>>
    /\ UNCHANGED <<execvars, initvars>>

\* .error_for_status()?; Ok(())
CheckStatus ==
    /\ wpc = "response"
    /\ IF ErrorForStatus(status[1]) THEN
           /\ ret' = Err("Http", 0)
           /\ cause' = HttpCause(ReqwestError("status", Some(call.url), status))
       ELSE
           /\ ret' = Ok
           /\ UNCHANGED cause
    /\ wpc' = "done"
    /\ UNCHANGED <<call, request, sent, status>>
    /\ UNCHANGED <<execvars, initvars>>

HookNext == BuildClient \/ BuildRequest \/ Send \/ CheckStatus

HookSpec == HookInit /\ [][HookNext]_vars

\* ------------------------------------------------------------------- init

\* cli.rs: enum DestinationType.
DestinationTypes == {"Desktop", "Webhook"}

DiscordUrl == "https://discord.com/api/webhooks/<CHANNEL_ID>/<WEBHOOK_ID>"

\* r#"{"content": "$(message)"}"#
DefaultTemplate ==
    <<"{", Quote, "c", "o", "n", "t", "e", "n", "t", Quote, ":", " ", Quote>>
    \o Placeholder \o <<Quote, "}">>

\* Destination::default_webhook()
DestinationDefaultWebhook ==
    [type |-> "webhook", url |-> DiscordUrl, format |-> Standard("Discord")]

\* Destination::default_custom_webhook()
DestinationDefaultCustomWebhook ==
    [type |-> "webhook", url |-> DiscordUrl,
     format |-> Custom("POST", <<HeaderContentType>>, DefaultTemplate, TRUE)]

\* Destination::default_desktop()
DestinationDefaultDesktop ==
    [type |-> "desktop", summary |-> "Noti", persistent |-> FALSE]

\* Stream::default()
StreamDefault == [enabled |-> FALSE, matching |-> None, redirect |-> Some("stdout")]

\* Config::default_webhook()
DefaultWebhook ==
    [destination |-> <<DestinationDefaultWebhook>>, stream |-> StreamDefault]

\* Config::default_custom_webhook()
DefaultCustomWebhook ==
    [destination |-> <<DestinationDefaultCustomWebhook>>, stream |-> StreamDefault]

\* Config::default_desktop()
DefaultDesktop ==
    [destination |-> <<DestinationDefaultDesktop>>, stream |-> StreamDefault]

\* init, `let config = match destination { .. }`: custom has no effect on a
\* desktop destination.
DefaultConfig(destination, custom) ==
    IF destination = "Desktop" THEN DefaultDesktop
    ELSE IF custom THEN DefaultCustomWebhook
    ELSE DefaultWebhook

\* A bool as YAML writes it.
YamlBool(b) == IF b THEN "true" ELSE "false"

\* #[serde(rename_all = "snake_case")] of StandardWebhookFormat.
SnakeCase(kind) ==
    IF kind = "PlainText" THEN "plain_text"
    ELSE IF kind = "GoogleChat" THEN "google_chat"
    ELSE "discord"

\* Serialize of WebhookFormat (untagged): a Standard format is its name, a
\* Custom format is the mapping of its fields in the order of the struct.
ToYamlFormat(f) ==
    IF f.variant = "Standard" THEN << <<"  format: ", SnakeCase(f.kind)>> >>
    ELSE << <<"  format:">>, <<"    http:">>, <<"      headers:">> >>
         \o [i \in 1..Len(f.headers) |->
                <<"        ">> \o f.headers[i].name \o <<": ">> \o f.headers[i].value]
         \o << <<"      method: ", f.method>>,
               <<"    template: ">> \o f.template,
               <<"    escape: ", YamlBool(f.escape)>> >>

\* Serialize of Destination (tag = "type", rename_all = "lowercase").
ToYamlDestination(d) ==
    IF d.type = "desktop"
    THEN << <<"- type: ", "desktop">>,
            <<"  summary: ", d.summary>>,
            <<"  persistent: ", YamlBool(d.persistent)>> >>
    ELSE << <<"- type: ", "webhook">>, <<"  url: ", d.url>> >> \o ToYamlFormat(d.format)

\* Serialize of Stream: matching and redirect are skipped when None.
ToYamlStream(s) ==
    << <<"stream:">>, <<"  enabled: ", YamlBool(s.enabled)>> >>
    \o (IF s.matching = None THEN <<>> ELSE << <<"  matching: ">> \o s.matching[1] >>)
    \o (IF s.redirect = None THEN <<>> ELSE << <<"  redirect: ", s.redirect[1]>> >>)

\* serde_yaml::to_string(&config): the lines of the document.
ToYaml(config) ==
    << <<"destination:">> >>
    \o Flatten([i \in 1..Len(config.destination) |-> ToYamlDestination(config.destination[i])])
    \o ToYamlStream(config.stream)

\* A configuration its user wrote.
UserDocument == << <<"destination: []">>, <<"stream:">>, <<"  enabled: ", "true">> >>

\* What the target path can hold when init is called: no file, an empty
\* file, a user's configuration, or a document init wrote before.
Files ==
    {None, Some(<<>>), Some(UserDocument)}
    \cup {Some(ToYaml(DefaultConfig(d, c))) : d \in DestinationTypes, c \in BOOLEAN}

\* tokio::fs::try_exists(&path).await: Ok(true) or Ok(false) when the path
\* was verified to exist or not to exist, Err when neither could be done.
TryExists(f) == IF f = None THEN {"Ok(false)", "Err"} ELSE {"Ok(true)", "Err"}

\* `if let Ok(true) = ..`
Conflict(r) == r = "Ok(true)"

\* init is called with a destination type and the custom flag.
InitStart ==
    /\ ExecuteIdle
    /\ HookIdle
    /\ initArgs \in [destination : DestinationTypes, custom : BOOLEAN]
    /\ file \in Files
    /\ file0 = file
    /\ ipc = "exists"
    /\ exists = None
    /\ data = None
    /\ iret = Running

\* init up to `let data = serde_yaml::to_string(&config)?`: the existence
\* check, the early return of ConfigConflict, the choice of the default
\* configuration and its serialisation.
InitTryExists ==
    /\ ipc = "exists"
    /\ \E r \in TryExists(file) :
         /\ exists' = Some(r)
         /\ IF Conflict(r) THEN
                /\ iret' = Err("ConfigConflict", 0)
                /\ ipc' = "done"
                /\ UNCHANGED data
            ELSE
                /\ data' = Some(ToYaml(DefaultConfig(initArgs.destination, initArgs.custom)))
                /\ ipc' = "write"
                /\ UNCHANGED iret
    /\ UNCHANGED <<initArgs, file, file0>>
    /\ UNCHANGED <<execvars, hookvars>>

\* Ok(tokio::fs::write(&path, &data).await?): the file is created or
\* truncated and the data written.  The write can fail before the file is
\* opened (the file is as it was; NotFound becomes NoConfig, error.rs
\* From<io::Error>) or after it was created or truncated.
InitWrite ==
    /\ ipc = "write"
    /\ \/ /\ file' = data
          /\ iret' = Ok
       \/ /\ UNCHANGED file
          /\ iret' = Err("Io", 0)
       \/ /\ file = None /\ exists = Some("Ok(false)")
          /\ UNCHANGED file
          /\ iret' = Err("NoConfig", 0)
       \/ /\ file' = Some(<<>>)
          /\ iret' = Err("Io", 0)
    /\ ipc' = "done"
    /\ UNCHANGED <<initArgs, file0, exists, data>>
    /\ UNCHANGED <<execvars, hookvars>>

InitNext ==
    \/ InitTryExists
    \/ InitWrite

InitSpec == InitStart /\ [][InitNext]_vars

\* ================================================================= claims

\* The positions of the log holding an event of kind ev.
Idx(ev) == {k \in 1..Len(log) : log[k].ev = ev}
\* How many events of kind ev the log holds before position k.
Before(ev, k) == Cardinality({j \in Idx(ev) : j < k})
\* The position of the last fan-out's start (0: none yet).
LastFanout == IF Idx("fanout") = {} THEN 0
              ELSE CHOOSE k \in Idx("fanout") : \A j \in Idx("fanout") : j <= k
\* The delivery attempts (requests sent, notifications shown) of the
\* fan-out in progress or last resolved, for destination i.
Attempts(i) == {k \in Idx("attempt") : k > LastFanout /\ log[k].n = i}
Streaming == cfg.enabled /\ message = None
\* The messages of the fan-outs made so far, in order.
RECURSIVE FanoutMsgs(_)
FanoutMsgs(k) ==
    IF k = 0 THEN <<>>
    ELSE IF log[k].ev = "fanout" THEN Append(FanoutMsgs(k - 1), log[k].msg)
    ELSE FanoutMsgs(k - 1)

\* ---- C1
\* C1: with a message argument and a loaded configuration whose
\* stream.enabled is true, execute returns Error::StreamAndMessage and has
\* made no fan-out and no delivery attempt, read no line of standard input
\* and echoed nothing.
C1_StreamAndMessage ==
    (loaded /\ cfg.enabled /\ message # None) =>
        /\ pc = "done"
        /\ result = Err("StreamAndMessage", 0)
        /\ log = <<>>
        /\ tasks = <<>>
        /\ stdin = input /\ nread = 0
        /\ stdout = <<>> /\ stderr = <<>>

C1_Witness ==
    /\ loaded /\ cfg.enabled /\ message # None
    /\ input # <<>> /\ cfg.destination # <<>>
    /\ pc = "done" /\ result.kind = "StreamAndMessage"

\* ---- C2
\* C2: when dispatch_all has returned, it returned Ok if and only if every
\* destination's dispatch completed with success, and it returned an error
\* whenever some destination's dispatch failed.
C2_SuccessIffAll ==
    joinRes.tag # "Running" =>
        /\ joinRes.tag \in {"Ok", "Err"}
        /\ joinRes.tag = "Ok" <=> \A i \in DOMAIN tasks : tasks[i].st = "ok"
        /\ (\E i \in DOMAIN tasks : tasks[i].st = "err") => joinRes.tag = "Err"

C2_Witness ==
    /\ joinRes.tag = "Err"
    /\ \E i, j \in DOMAIN tasks : tasks[i].st = "ok" /\ tasks[j].st = "err"

C5_FirstFailure ==
    joinRes.tag = "Err" =>
        LET F == {k \in Idx("fail") : k > LastFanout} IN
        /\ F # {}
        /\ LET k0 == CHOOSE k \in F : \A j \in F : k <= j IN
              /\ joinRes.src = log[k0].n
              /\ <<joinRes.kind>> = log[k0].msg
        /\ joinRes.src \in DOMAIN tasks
        /\ tasks[joinRes.src].st = "err"
        /\ tasks[joinRes.src].err = joinRes.kind

C5_Witness ==
    /\ joinRes.tag = "Err"
    /\ joinRes.src > 1
    /\ tasks[1].st = "dropped"

\* ---- C6
\* C6: in streaming mode a line is read only when every earlier fan-out has
\* resolved and none of its destination tasks is still to be polled; at most
\* one fan-out is in progress at any time, and the lines are read in the
\* order in which they arrive.
C6_Sequential ==
    Streaming =>
        /\ \A k \in Idx("read") :
              /\ Before("fanout", k) = Before("resolved", k)
              /\ log[k].n = Before("read", k) + 1
              /\ log[k].n <= Len(input) /\ log[k].msg = input[log[k].n]
        /\ \A k \in 1..(Len(log) + 1) :
              Before("fanout", k) - Before("resolved", k) \in {0, 1}
        /\ pc \in {"read", "echo", "match"} =>
              /\ Cardinality(Idx("fanout")) = Cardinality(Idx("resolved"))
              /\ \A i \in DOMAIN tasks : tasks[i].st \notin {"created", "pending"}

C6_Witness ==
    /\ Streaming
    /\ \E k1, k2, k3, k4 \in 1..Len(log) :
          /\ k1 < k2 /\ k2 < k3 /\ k3 < k4
          /\ log[k1].ev = "fanout"
          /\ log[k2].ev = "attempt"
          /\ log[k3].ev = "resolved"
          /\ log[k4].ev = "read"

\* ---- C7
\* C7: in streaming mode a fan-out that fails ends the stream: execute has
\* returned that error, and nothing is read, echoed or dispatched after the
\* failed fan-out resolved.
C7_FailFast ==
    Streaming =>
        \A k \in Idx("resolved") :
            log[k].msg[1] = "Err" =>
                /\ k = Len(log)
                /\ pc = "done"
                /\ result.tag = "Err" /\ result.kind = log[k].msg[2]
                /\ result = joinRes

C7_Witness ==
    /\ Streaming
    /\ joinRes.tag = "Err"
    /\ nread >= 2
    /\ stdin # <<>>
    /\ pc = "done" /\ result = joinRes

\* ---- C8
\* The words of a pattern, stated on its atoms: w[pos..] is in the language
\* of atoms[k..].
RECURSIVE InLang(_, _, _, _)
InLang(atoms, k, w, pos) ==
    IF k > Len(atoms) THEN pos = Len(w) + 1
    ELSE IF atoms[k].star THEN
        \E m \in 0..(Len(w) + 1 - pos) :
            /\ \A q \in pos..(pos + m - 1) : atoms[k].c \in {".", w[q]}
            /\ InLang(atoms, k + 1, w, pos + m)
    ELSE /\ pos <= Len(w)
         /\ atoms[k].c \in {".", w[pos]}
         /\ InLang(atoms, k + 1, w, pos + 1)

\* line[s..e] is a match of the pattern.
IsMatch(pattern, line, s, e) ==
    LET anchored == Len(pattern) >= 1 /\ pattern[1] = "^"
        atoms == RegexNew(pattern).atoms
    IN  /\ anchored => s = 1
        /\ InLang(atoms, 1, SubSeq(line, s, e), 1)

Spans(pattern, line) ==
    {se \in (1..(Len(line) + 1)) \X (0..Len(line)) :
        se[2] >= se[1] - 1 /\ IsMatch(pattern, line, se[1], se[2])}

\* The text of the first match of each valid pattern in each line, None
\* where the pattern matches nowhere: the match with the leftmost start and,
\* from that start, the greedy one (for these patterns, the longest).
FirstMatch ==
    [pattern \in {p \in Patterns : RegexNew(p).ok}, line \in Lines |->
        LET S == Spans(pattern, line) IN
        IF S = {} THEN None
        ELSE LET se == CHOOSE x \in S : \A y \in S :
                           x[1] < y[1] \/ (x[1] = y[1] /\ x[2] >= y[2])
             IN  Some(SubSeq(line, se[1], se[2]))]

\* C8: in streaming mode with a (valid) pattern, a line the pattern does not
\* match causes no fan-out and reading goes on; a line it matches causes
\* exactly one fan-out, whose message is the span of the first match.
C8_MatchedSpan ==
    (Streaming /\ cfg.matching # None /\ RegexNew(cfg.matching[1]).ok) =>
        \A k \in Idx("read") :
            LET first == FirstMatch[cfg.matching[1], log[k].msg]
                later == {j \in Idx("read") : j > k}
                F == {j \in Idx("fanout") : j > k /\ \A r \in later : j < r}
                selected == log[k].n < nread \/ pc \notin {"echo", "match"}
            IN  IF first = None THEN
                    /\ F = {}
                    /\ (selected /\ log[k].n = nread) =>
                          \/ pc = "read"
                          \/ pc = "done" /\ result.kind \in {"", "Io"}
                ELSE
                    /\ Cardinality(F) = IF selected THEN 1 ELSE 0
                    /\ \A j \in F : log[j].msg = first[1]

C8_Witness ==
    /\ Streaming
    /\ cfg.matching = Some(PatGroup)
    /\ input = <<LineInfo, LineError>>
    /\ pc = "done" /\ result = Ok
    /\ cfg.destination # <<>>
    /\ FanoutMsgs(Len(log)) = << <<"d", "i", "s", "k", " ", "f", "u", "l", "l">> >>

\* ---- C9
Scenario ==
    /\ Streaming
    /\ cfg.matching = Some(PatError)
    /\ input = ScenarioInput
    /\ pc = "done" /\ result = Ok

\* C9 as stated: streaming with matching "^ERROR:" over "info",
\* "ERROR: disk full", "ok", every dispatch succeeding, makes exactly one
\* fan-out, of the message "ERROR: disk full".
C9_WholeLine ==
    Scenario => FanoutMsgs(Len(log)) = <<LineError>>

\* C9 as amended: it makes exactly one fan-out, of the message "ERROR:", the
\* text the pattern matched.
C9_MatchedText ==
    Scenario => FanoutMsgs(Len(log)) = << <<"E", "R", "R", "O", "R", ":">> >>

C9_Witness ==
    /\ Scenario
    /\ cfg.destination # <<>>
    /\ nread = Len(ScenarioInput)
    /\ Cardinality(Idx("attempt")) >= 1

\* ---- C10
\* C10: in streaming mode every line read is echoed once, as read, right
\* after it was read (so before the pattern is tried and before any
\* dispatch, matching or not): to standard output with redirect Stdout, to
\* standard error with redirect Stderr; with no redirect nothing is echoed.
C10_Echo ==
    Streaming =>
        LET echoes == Idx("stdout") \cup Idx("stderr")
            done == IF pc = "echo" THEN nread - 1 ELSE nread
        IN  /\ \A k \in Idx("read") :
                  IF cfg.redirect = "None" THEN echoes = {}
                  ELSE /\ k = Len(log) => pc = "echo"
                       /\ k < Len(log) =>
                             /\ log[k + 1].ev = (IF cfg.redirect = "Stdout" THEN "stdout" ELSE "stderr")
                             /\ log[k + 1].n = log[k].n
                             /\ log[k + 1].msg = log[k].msg
                       /\ Cardinality({j \in echoes : log[j].n = log[k].n}) =
                              IF k < Len(log) THEN 1 ELSE 0
            /\ stdout = IF cfg.redirect = "Stdout" THEN SubSeq(input, 1, done) ELSE <<>>
            /\ stderr = IF cfg.redirect = "Stderr" THEN SubSeq(input, 1, done) ELSE <<>>

C10_Witness ==
    /\ Streaming
    /\ cfg.redirect = "Stderr"
    /\ cfg.matching = Some(PatError)
    /\ stderr = <<LineInfo, LineError>>
    /\ stdout = <<>>
    /\ Cardinality(Idx("fanout")) = 1

\* ---- C11
InvalidPattern == cfg.matching # None /\ ~RegexNew(cfg.matching[1]).ok

\* C11: with a stream.matching pattern that does not compile, streaming
\* returns the Regex error before any line is read or echoed and before any
\* dispatch, whatever the input is, the empty input included.
C11_CompiledAtStart ==
    (Streaming /\ loaded /\ InvalidPattern) =>
        /\ Idx("read") = {} /\ nread = 0
        /\ stdout = <<>> /\ stderr = <<>>
        /\ Idx("fanout") = {}
        /\ pc = "done" => result = Err("Regex", 0)

\* ---- C12
\* C12: with stream.enabled = false and no message argument, execute returns
\* NoMessage, makes no fan-out and no delivery attempt, and reads (and
\* echoes) nothing from standard input.
C12_NoMessage ==
    (loaded /\ ~cfg.enabled /\ message = None) =>
        /\ pc = "done"
        /\ result = Err("NoMessage", 0)
        /\ log = <<>>
        /\ stdin = input /\ nread = 0
        /\ stdout = <<>> /\ stderr = <<>>

C12_Witness ==
    /\ loaded /\ ~cfg.enabled /\ message = None
    /\ input # <<>>
    /\ cfg.destination # <<>>
    /\ result = Err("NoMessage", 0)

\* ---- C13
\* C13: with stream.enabled = false and a message argument, execute makes
\* exactly one fan-out, of the argument unchanged, over all the configured
\* destinations, reads (and echoes) nothing from standard input, and returns
\* what that fan-out returned.
C13_DispatchOnce ==
    (loaded /\ ~cfg.enabled /\ message # None) =>
        /\ FanoutMsgs(Len(log)) = <<message[1]>>
        /\ joinMsg = message[1]
        /\ Len(tasks) = Len(cfg.destination)
        /\ \A k \in Idx("attempt") : log[k].msg = message[1]
        /\ Idx("read") = {} /\ nread = 0 /\ stdin = input
        /\ stdout = <<>> /\ stderr = <<>>
        /\ pc \in {"poll", "done"}
        /\ pc = "done" <=> joinRes # Running
        /\ result = joinRes

C13_Witness ==
    /\ loaded /\ ~cfg.enabled /\ message = Some(MessageArg)
    /\ input # <<>>
    /\ Len(cfg.destination) = 2
    /\ pc = "done" /\ result = Ok
    /\ Cardinality(Idx("attempt")) = 2

\* ---- C14
DispatchErrors == {"Http", "NotifyRust", "UnknownHttpHeader", "InvalidHttpHeader"}

\* C14: with an empty destination sequence a fan-out returns success on its
\* first poll without any delivery attempt; so in streaming mode every
\* line's fan-out succeeds and the stream never ends with a dispatch error.
C14_EmptyFanout ==
    cfg.destination = <<>> =>
        /\ Idx("attempt") = {} /\ Idx("fail") = {}
        /\ tasks = <<>>
        /\ pc = "poll" => fstate.tag = "AllDone" /\ cursor > Len(tasks)
        /\ joinRes \in {Running, Ok}
        /\ \A k \in Idx("fanout") :
              k < Len(log) => log[k + 1] = Event("resolved", log[k].n, <<"Ok", "">>)
        /\ result.kind \notin DispatchErrors
        /\ (Streaming /\ pc = "done" /\ result = Ok) => Cardinality(Idx("resolved")) = NumFanouts

C14_Witness ==
    /\ cfg.destination = <<>>
    /\ Streaming
    /\ nread = 2
    /\ Cardinality(Idx("resolved")) = 2
    /\ pc = "done" /\ result = Ok

\* ---- C16
\* C16: in streaming mode with no stream.matching, every line read is handed
\* to exactly one fan-out, verbatim: the messages of the fan-outs made are
\* the lines read, in order (the stream ends at the first failing fan-out).
C16_EveryLine ==
    (Streaming /\ loaded /\ cfg.matching = None) =>
        LET handled == IF pc \in {"echo", "match"} THEN nread - 1 ELSE nread
        IN  /\ FanoutMsgs(Len(log)) = SubSeq(input, 1, handled)
            /\ NumFanouts = handled
            /\ \A k \in Idx("fanout") :
                  /\ log[k].msg = input[log[k].n]
                  /\ \E j \in Idx("read") : j < k /\ log[j].n = log[k].n /\ log[j].msg = log[k].msg
            /\ \A k \in Idx("attempt") : log[k].msg = input[log[LastFanout].n] \/ k < LastFanout

C16_Witness ==
    /\ Streaming /\ cfg.matching = None
    /\ cfg.destination # <<>>
    /\ input = <<LineError, LineInfo>>
    /\ FanoutMsgs(Len(log)) = <<LineError, LineInfo>>
    /\ pc = "done" /\ result = Ok

\* ---- C15
\* The messages the stream hands to fan-outs over the first k input lines.
RECURSIVE Selected(_)
Selected(k) ==
    IF k = 0 THEN <<>>
    ELSE IF cfg.matching = None THEN Append(Selected(k - 1), input[k])
    ELSE IF FirstMatch[cfg.matching[1], input[k]] = None THEN Selected(k - 1)
    ELSE Append(Selected(k - 1), FirstMatch[cfg.matching[1], input[k]][1])

AllSucceeded == loaded /\ Idx("fail") = {} /\ result.kind # "Io"

\* C15: streaming over a finite input (with a pattern that compiles, if one
\* is set) terminates; if the configuration was loaded and every read and
\* every fan-out succeeded it terminates with success at end of input,
\* every line read, echoed and, where selected, dispatched.  Once execute
\* has returned nothing more is read or dispatched.
C15_Terminates ==
    /\ (Streaming /\ ~InvalidPattern) =>
          <>(/\ pc = "done"
             /\ AllSucceeded =>
                   /\ result = Ok
                   /\ stdin = <<>> /\ nread = Len(input)
                   /\ FanoutMsgs(Len(log)) = Selected(Len(input))
                   /\ Cardinality(Idx("resolved")) = NumFanouts)
    /\ [][pc = "done" => vars' = vars]_vars

C15_Witness ==
    /\ Streaming /\ cfg.matching = Some(PatO)
    /\ input = <<LineInfo, LineOk>>
    /\ Len(cfg.destination) = 2
    /\ pc = "done" /\ result = Ok
    /\ nread = 2
    /\ FanoutMsgs(Len(log)) = << <<"o">>, <<"o">> >>
    /\ \E i \in 1..2 : tasks[i].st = "ok" /\ ~tasks[i].first

\* ---- C17
\* The positions of t at which the placeholder text is found.
Occurrences(t) ==
    {i \in 1..Len(t) :
        /\ i + Len(Placeholder) - 1 <= Len(t)
        /\ \A k \in 1..Len(Placeholder) : t[i + k - 1] = Placeholder[k]}

\* C17: format_message of a Custom format gives the template with every
\* occurrence of the literal $(message) replaced by the message (escaped
\* when escape is set) and every other character kept, in place and in
\* order; the text put in is not substituted again; a template without the
\* placeholder is given back as it is.
C17_Substitution ==
    (wpc = "done" /\ call.format.variant = "Custom") =>
        LET t == call.format.template
            m == IF call.format.escape THEN EscapeDefault(call.message) ELSE call.message
            out == request[1].body
            occ == Occurrences(t)
            shift == Len(m) - Len(Placeholder)
            To(i) == i + Cardinality({j \in occ : j < i}) * shift
            Covered(i) == \E j \in occ : j <= i /\ i < j + Len(Placeholder)
        IN  /\ Len(out) = Len(t) + Cardinality(occ) * shift
            /\ \A j \in occ : SubSeq(out, To(j), To(j) + Len(m) - 1) = m
            /\ \A i \in 1..Len(t) : ~Covered(i) => out[To(i)] = t[i]
            /\ occ = {} => out = t

C17_Witness ==
    /\ wpc = "done"
    /\ call.format.variant = "Custom"
    /\ call.format.template = Placeholder \o Placeholder
    /\ call.format.escape
    /\ call.message = <<Quote>>
    /\ request[1].body = <<Backslash, Quote, Backslash, Quote>>

\* ---- C18
NotJson == [ok |-> FALSE, text |-> <<>>, next |-> 0]

\* The character a JSON escape \c stands for (<<>>: not an escape).
JsonUnescape(c) ==
    IF c = "n" THEN <<Newline>>
    ELSE IF c = "t" THEN <<"\t">>
    ELSE IF c = "r" THEN <<"\r">>
    ELSE IF c \in {Quote, Backslash, "/"} THEN <<c>>
    ELSE <<>>

\* Reads the rest of a JSON string of s from position i on (the opening
\* quote is before i): the text it stands for and the position after its
\* closing quote.
RECURSIVE ReadJsonString(_, _, _)
ReadJsonString(s, i, acc) ==
    IF i > Len(s) THEN NotJson
    ELSE IF s[i] = Quote THEN [ok |-> TRUE, text |-> acc, next |-> i + 1]
    ELSE IF s[i] \in {Newline, "\t", "\r"} THEN NotJson
    ELSE IF s[i] = Backslash THEN
        IF i + 1 > Len(s) \/ JsonUnescape(s[i + 1]) = <<>> THEN NotJson
        ELSE ReadJsonString(s, i + 2, acc \o JsonUnescape(s[i + 1]))
    ELSE ReadJsonString(s, i + 1, Append(acc, s[i]))

\* Whether body is the JSON object {key: text}, one member, both strings.
IsJsonObject(body, key, text) ==
    /\ Len(body) >= 2 /\ body[1] = "{" /\ body[2] = Quote
    /\ LET k == ReadJsonString(body, 3, <<>>) IN
         /\ k.ok /\ k.text = key
         /\ k.next + 1 <= Len(body) /\ body[k.next] = ":" /\ body[k.next + 1] = Quote
         /\ LET v == ReadJsonString(body, k.next + 2, <<>>) IN
              /\ v.ok /\ v.text = text
              /\ v.next = Len(body) /\ body[v.next] = "}"

\* C18: for every message and every Standard format, PlainText has the
\* content type text/plain and the message itself as body; Discord has
\* application/json and the JSON object {"content": message}; GoogleChat has
\* application/json and the JSON object {"text": message}.
C18_StandardFormats ==
    (wpc = "done" /\ call.format.variant = "Standard") =>
        LET kind == call.format.kind
            ctype == request[1].headers[1].value
            body == request[1].body
        IN  /\ kind = "PlainText" => ctype = TextPlain /\ body = call.message
            /\ kind = "Discord" =>
                  /\ ctype = ApplicationJson
                  /\ IsJsonObject(body, <<"c", "o", "n", "t", "e", "n", "t">>, call.message)
            /\ kind = "GoogleChat" =>
                  /\ ctype = ApplicationJson
                  /\ IsJsonObject(body, <<"t", "e", "x", "t">>, call.message)

\* ---- C19
\* The entries of a header map that are not valid, by position.
InvalidEntries(h) == {i \in 1..Len(h) : ~NameOk(h[i].name) \/ ~ValueOk(h[i].value)}

\* The call is for a Custom format with an invalid header name or value.
InvalidCustom == call.format.variant = "Custom" /\ InvalidEntries(call.format.headers) # {}

\* The error of the first invalid entry: of its name if that is invalid,
\* else of its value.
FirstInvalid(h) ==
    LET i == CHOOSE k \in InvalidEntries(h) : \A j \in InvalidEntries(h) : k <= j
    IN  IF ~NameOk(h[i].name) THEN "UnknownHttpHeader" ELSE "InvalidHttpHeader"

\* C19 as stated: a dispatch to a Custom webhook with an invalid header name
\* or value fails with UnknownHttpHeader or InvalidHttpHeader, not with
\* Http, and no request is built or sent.
C19_ConfigurationError ==
    InvalidCustom =>
        /\ ~sent /\ request = None /\ status = None
        /\ ret.tag # "Ok"
        /\ wpc = "done" =>
              ret.tag = "Err" /\ ret.kind \in {"UnknownHttpHeader", "InvalidHttpHeader"}

\* C19 as amended: such a dispatch fails and no request is built or sent;
\* once the HTTP client is built the failure is the error of the first
\* invalid header entry (UnknownHttpHeader for a name, InvalidHttpHeader for
\* a value); before that, a client that cannot be built fails it with Http.
C19_FailsBeforeRequest ==
    /\ [](InvalidCustom =>
             /\ ~sent /\ request = None /\ status = None
             /\ ret.tag # "Ok"
             /\ wpc = "done" =>
                   /\ ret.tag = "Err"
                   /\ ret.kind \in {"Http", FirstInvalid(call.format.headers)})
    /\ [][(InvalidCustom /\ wpc = "request") =>
             /\ ret' = Err(FirstInvalid(call.format.headers), 0)
             /\ wpc' = "done"]_vars
    /\ [][(InvalidCustom /\ ret' = Err("Http", 0)) => wpc = "client"]_vars

C19_Witness ==
    /\ wpc = "done"
    /\ call.format.variant = "Custom"
    /\ call.format.headers = <<HeaderGood, HeaderBadValue>>
    /\ ret = Err("InvalidHttpHeader", 0)
    /\ ~sent /\ request = None

\* ---- C20
\* A success status: 2xx.
IsSuccess(code) == code >= 200 /\ code <= 299
\* A client error or server error status: 4xx, 5xx.
IsErrorStatus(code) == code \in 400..599

Shown == Display(ret.kind, IF cause = None THEN None ELSE cause[1].inner)

\* The message the same failure shows when the call's url is u: the error
\* as the library raises it for that url, converted and displayed.
ShownWithUrl(u) ==
    LET raised == cause[1].raised
        other == [raised EXCEPT !.url = IF @ = None THEN None ELSE Some(u)]
    IN  Display("Http", FromReqwest(other))

FanoutOf(k) == Before("fanout", k + 1)

\* C22: a fan-out makes at most one delivery attempt for each destination,
\* so at most as many attempts as there are destinations; a destination
\* whose attempt failed is not attempted again, and nothing at all is
\* attempted in a fan-out after a failure; the streaming loop makes at most
\* one fan-out for a line it read, and the single mode makes at most one.
C22_NoRetries ==
    /\ \A k \in Idx("attempt") :
          /\ FanoutOf(k) >= 1
          /\ log[k].n \in 1..Len(cfg.destination)
          /\ log[k].msg = log[CHOOSE f \in Idx("fanout") : FanoutOf(f) = FanoutOf(k)].msg
    /\ \A k1, k2 \in Idx("attempt") :
          (FanoutOf(k1) = FanoutOf(k2) /\ log[k1].n = log[k2].n) => k1 = k2
    /\ \A f \in 1..NumFanouts :
          Cardinality({k \in Idx("attempt") : FanoutOf(k) = f}) <= Len(cfg.destination)
    /\ \A k \in Idx("fail") : \A j \in Idx("attempt") : j < k
    /\ \A k1, k2 \in Idx("fanout") :
          k1 < k2 => \E r \in Idx("read") : k1 < r /\ r < k2
    /\ \A k \in Idx("fanout") :
          Before("fanout", k) < (IF Streaming THEN Before("read", k) ELSE 1)

C22_Witness ==
    /\ Streaming /\ Len(cfg.destination) = 2
    /\ pc = "done" /\ result.tag = "Err"
    /\ NumFanouts = 2
    /\ Cardinality(Idx("attempt")) = 4
    /\ \E k \in Idx("fail") : \E j \in Idx("attempt") :
          /\ j < k - 1 /\ FanoutOf(j) = 2 /\ log[j].n = log[k].n


\* ---- C23
\* The document init writes for its arguments.
InitDocument == Some(ToYaml(DefaultConfig(initArgs.destination, initArgs.custom)))

\* C23: when init has returned, a file that was at the path when it was
\* called made it return ConfigConflict and holds what it held; init
\* returned Ok only when no file was there, and then the file holds the
\* default configuration of the chosen destination type.
C23_NeverOverwrites ==
    ipc = "done" =>
        /\ file0 # None => (iret = Err("ConfigConflict", 0) /\ file = file0)
        /\ iret = Ok => (file0 = None /\ file = InitDocument)
====
